---- MODULE Spec2Model ----
(***************************************************************************)
(* Model of the background data-refresh pipeline of stock-screener:        *)
(*   backend/api/job_manager.py        DataRefreshJobManager               *)
(*   backend/scripts/incremental_fetch.py   sync stage (exit status)       *)
(*   backend/scripts/process_indicators.py  indicator stage (exit status)  *)
(*                                                                         *)
(* The state file is the persisted JobState.  Handlers that run under      *)
(* self.lock are atomic with respect to each other and are one action      *)
(* each.  The worker's completion write (job_manager.py:160-173) and its   *)
(* reads at lines 164 and 177 are made WITHOUT the lock, so they are       *)
(* separate steps: open(path, 'w') truncates the file before json.dump     *)
(* writes it, and a reader in between finds an unparsable file.            *)
(*                                                                         *)
(* Timestamps (datetime.now().isoformat()) are represented by the value    *)
(* of a logical clock that advances with every read; JSON null is None     *)
(* for text fields and NoTime for timestamp fields.                        *)
(***************************************************************************)
EXTENDS Integers, Sequences, FiniteSets, Bags, TLC

\* ---------------------------------------------------------------- bounds
MaxRuns == 3        \* accepted start_refresh() calls (worker threads) explored

Workers == 1..MaxRuns
Symbols == {"AAA", "BBB"}

\* ------------------------------------------------------------ JSON values
None == "None"
NoTime == 0
TimeKeys == {"started_at", "completed_at", "last_successful_refresh"}

\* dict.get(key): None when the key is missing
Get(d, k) == IF k \in DOMAIN d THEN d[k]
             ELSE IF k \in TimeKeys THEN NoTime ELSE None

\* d[key] = value
Put(d, k, v) == [x \in (DOMAIN d) \cup {k} |-> IF x = k THEN v ELSE d[x]]

\* str.capitalize() on the status names passed to _update_progress
Capitalize(s) == IF s = "fetching" THEN "Fetching"
                 ELSE IF s = "processing" THEN "Processing" ELSE s

RunningStatuses == {"fetching", "processing"}

\* ------------------------------------------------------------- state file
\* The file either holds one JSON document, or is empty (open(path, 'w') has
\* truncated it and the writer has not written yet), or is garbled (a
\* writer that opened the file earlier wrote its shorter document over a
\* longer one written in between).  Neither of the last two parses.
Truncated == [readable |-> FALSE, empty |-> TRUE]
Garbled == [readable |-> FALSE, empty |-> FALSE]
Saved(state) == [readable |-> TRUE, json |-> state]
\* no file at that path (os.path.exists is False)
Missing == [readable |-> FALSE, empty |-> FALSE, exists |-> FALSE]

JSONDecodeError == "Expecting value: line 1 column 1 (char 0)"

IdleState(last_refresh) ==
    [status |-> "idle", phase |-> None, started_at |-> NoTime,
     completed_at |-> NoTime, last_successful_refresh |-> last_refresh,
     error |-> None,
     progress |-> [current_phase |-> None, message |-> "No refresh in progress"]]

\* variant: every construction starts from the idle state
ensure_state_file_AlwaysIdle(f) == Saved(IdleState(NoTime))

\* _ensure_state_file (33-48): the idle document is written only when no
\* file exists; an existing file is left as the previous process left it
ensure_state_file(f) == IF f = Missing THEN Saved(IdleState(NoTime)) ELSE f

\* _load_state: the parsed document, or the fallback dict on any exception
LoadState(f) == IF f.readable THEN f.json
                ELSE [status |-> "idle", error |-> JSONDecodeError]

\* threading.Lock is not reentrant: acquire succeeds only on a free lock,
\* whoever holds it.
Free == "free"
CanAcquire(l) == l = Free

VARIABLES
    file,            \* content of refresh_job_state.json
    lock,            \* owner of self.lock, or Free
    current_thread,  \* self.current_thread: id of the last worker launched, 0 = None
    workers,         \* per worker thread: position and locals of _run_refresh_job
    now,             \* logical clock read by datetime.now()
    ret,             \* the public call made in the last step and what it returned
                     \* (returned: the call came back; loaded: the status it found)
    hist,            \* history: the per-item errors met by the run started last
    today,           \* the calendar day (what datetime.now() falls on)
    prices,          \* table historical_prices: a bag of rows
    stocks,          \* table stocks: the symbols it lists (all active)
    indicators,      \* table stock_indicators as committed: a bag of rows
    batch,           \* locals of the running (or last) incremental_fetch_all
    calc,            \* locals of the running (or last) process_all_indicators
    last             \* the per-symbol operation made in the last step and what it did

jobs == <<file, lock, current_thread, workers, now, ret, hist>>
store == <<today, prices, stocks, indicators, batch, calc, last>>
vars == <<file, lock, current_thread, workers, now, ret, hist,
          today, prices, stocks, indicators, batch, calc, last>>

\* ============================================================ sync stage
\* What happens to one symbol inside incremental_fetch_symbol:
\*   rows               HTTP 200 with marketData rows
\*   up_to_date         days_behind <= 0, no request made
\*   http_error         HTTP status other than 200
\*   request_exception  requests.get raised (timeout, connection refused)
\*   no_data            HTTP 200 with an empty or missing marketData
\*   malformed          body is not JSON, or its rows have no Date column
\*   db_error           a sqlite call of the worker raised
FetchOutcomes == {"rows", "up_to_date", "no_data", "http_error",
                  "request_exception", "malformed", "db_error"}
FetchFailures == {"http_error", "request_exception", "malformed"}
RowsPerFetch == 2

\* fetch_nasdaq_incremental: a DataFrame of rows, or None on every failure
fetch_nasdaq_incremental(o) == IF o = "rows" THEN "df" ELSE None

\* incremental_fetch_symbol: the inserted count it returns, or the
\* exception that escapes it
incremental_fetch_symbol(o) ==
    IF o = "db_error" THEN [raised |-> TRUE, inserted |-> 0]
    ELSE IF o = "up_to_date" THEN [raised |-> FALSE, inserted |-> 0]
    ELSE IF fetch_nasdaq_incremental(o) # None
         THEN [raised |-> FALSE, inserted |-> RowsPerFetch]
         ELSE [raised |-> FALSE, inserted |-> 0]

RECURSIVE SumInserted(_, _)
SumInserted(S, r) == IF S = {} THEN 0
                     ELSE LET s == CHOOSE x \in S : TRUE
                          IN r[s].inserted + SumInserted(S \ {s}, r)

\* incremental_fetch_all: (total_inserted, success_count, fail_count)
incremental_fetch_all(symbols, outcome) ==
    LET r == [s \in symbols |-> incremental_fetch_symbol(outcome[s])]
        ok == {s \in symbols : ~r[s].raised}
    IN [total_inserted |-> SumInserted(ok, r),
        success_count |-> Cardinality(ok),
        fail_count |-> Cardinality(symbols \ ok)]

Traceback == "Traceback (most recent call last): ..."

\* history predicates: the per-item errors a stage that ran to its end met
FetchItemErrors(env) ==
    ~env.crash /\ env.csv_ok
    /\ \E s \in Symbols : env.outcome[s] \notin {"rows", "up_to_date", "no_data"}
AllFetchFailed(env) ==
    ~env.crash /\ env.csv_ok
    /\ \A s \in Symbols : env.outcome[s] \in FetchFailures
ProcessItemErrors(env) ==
    ~env.crash /\ env.has_rows
    /\ \E s \in Symbols : env.outcome[s] # "stored"

\* variant: the script exits 1 when the provider failed for every symbol
incremental_fetch_main_FailsWhenAllFail(env) ==
    IF env.crash \/ AllFetchFailed(env) THEN [returncode |-> 1, stderr |-> Traceback]
    ELSE [returncode |-> 0, stderr |-> ""]

\* incremental_fetch.py as a process: its exit status and stderr.
\*   env.crash    an exception outside the per-symbol handlers (import,
\*                logging.basicConfig, sqlite3.connect) ends the process
\*   env.csv_ok   the symbol list could be read
incremental_fetch_main(env) ==
    IF env.crash THEN [returncode |-> 1, stderr |-> Traceback]
    ELSE LET symbols == IF env.csv_ok THEN Symbols ELSE {}
         IN IF symbols = {} THEN [returncode |-> 0, stderr |-> ""]
            ELSE [returncode |-> 0, stderr |-> "",
                  summary |-> incremental_fetch_all(symbols, env.outcome)]

NoFetch == [s \in Symbols |-> "up_to_date"]
SyncEnvs == [crash : {FALSE}, csv_ok : {TRUE}, outcome : [Symbols -> FetchOutcomes]]
            \cup [crash : BOOLEAN, csv_ok : BOOLEAN, outcome : {NoFetch}]

\* ======================================================= indicator stage
\* What happens to one symbol inside process_symbol:
\*   stored        snapshot written, returns True
\*   insufficient  fewer than 200 rows, returns False
\*   calc_error    exception inside calculate_and_store_indicators, caught
\*   conn_error    sqlite3.connect raised in process_symbol
IndicatorOutcomes == {"stored", "insufficient", "calc_error", "conn_error"}

calculate_and_store_indicators(o) == o = "stored"

process_all_indicators(symbols, outcome) ==
    LET raised == {s \in symbols : outcome[s] = "conn_error"}
        success == {s \in symbols \ raised : calculate_and_store_indicators(outcome[s])}
    IN [success_count |-> Cardinality(success),
        fail_count |-> Cardinality(symbols \ success)]

\* variant: the script exits 1 when some symbol was not stored
process_indicators_main_FailsOnItemError(env) ==
    IF env.crash \/ ProcessItemErrors(env) THEN [returncode |-> 1, stderr |-> Traceback]
    ELSE [returncode |-> 0, stderr |-> ""]

\* process_indicators.py as a process: its exit status and stderr.
\*   env.crash     an exception in main outside the workers (import talib,
\*                 sqlite3.connect, get_all_symbols)
\*   env.has_rows  the stocks table lists at least one active symbol
process_indicators_main(env) ==
    IF env.crash THEN [returncode |-> 1, stderr |-> Traceback]
    ELSE LET symbols == IF env.has_rows THEN Symbols ELSE {}
         IN IF symbols = {} THEN [returncode |-> 0, stderr |-> ""]
            ELSE [returncode |-> 0, stderr |-> "",
                  summary |-> process_all_indicators(symbols, env.outcome)]

AllStored == [s \in Symbols |-> "stored"]
IndicatorEnvs == [crash : {FALSE}, has_rows : {TRUE}, outcome : [Symbols -> IndicatorOutcomes]]
                 \cup [crash : BOOLEAN, has_rows : BOOLEAN, outcome : {AllStored}]

\* ========================================================= subprocess.run
\* How subprocess.run(..., timeout=900) ends: the child exited, the
\* timeout expired, or the child could not be launched (OSError).
RunKinds == {"exited", "timeout", "oserror"}
OSErrorText == "[Errno 2] No such file or directory: 'python'"

\* variant: the exit status of the child is not looked at
StageError_IgnoresExit(kind, result, prefix, phase) ==
    IF kind = "timeout" THEN "Job timed out during " \o phase \o " phase"
    ELSE IF kind = "oserror" THEN OSErrorText
    ELSE None

\* Lines 129-138 / 146-155 with the handlers at 176-184: the error message
\* the worker ends up with, or None when the stage succeeded.  `phase` is
\* the unlocked read of line 177.
StageError(kind, result, prefix, phase) ==
    IF kind = "timeout" THEN "Job timed out during " \o phase \o " phase"
    ELSE IF kind = "oserror" THEN OSErrorText
    ELSE IF result.returncode # 0 THEN prefix \o result.stderr
    ELSE None

\* =========================================================== price store
Days == 2           \* calendar days explored
LookbackDays == 1   \* days of the full lookback (timedelta(days=730) in the source)
MaxBatch == 1       \* rows in one provider response
MinRows == 2        \* rows an indicator run needs (200 in the source)
TicksPerDay == 2    \* clock readings told apart within one day

\* the first day explored: late enough for a full lookback and for a
\* history of more than MinRows days before it
FirstDay == LookbackDays + MinRows
LastDay == FirstDay + Days - 1
NoDate == NoTime    \* SQL NULL / None / NaT where a date is expected

\* datetime arithmetic: a datetime is a count of ticks
DateTime(day, tod) == day * TicksPerDay + tod
timedelta(days) == days * TicksPerDay
\* datetime.strptime(text, '%Y-%m-%d'): midnight of that day
strptime(date) == date * TicksPerDay
\* dt.strftime('%Y-%m-%d'): the day the datetime falls on
strftime(dt) == dt \div TicksPerDay
\* timedelta.days: whole days, rounded towards minus infinity
days(delta) == delta \div TicksPerDay

Max(S) == CHOOSE x \in S : \A y \in S : y <= x

\* a stored row; close stands for the OHLCV values of the row
PriceRow(symbol, date, close) == [symbol |-> symbol, date |-> date, close |-> close]
\* the columns of UNIQUE(symbol, date)
Key(r) == <<r.symbol, r.date>>
SymbolRows(symbol, tbl) == {r \in BagToSet(tbl) : r.symbol = symbol}

\* get_latest_date: SELECT MAX(date) ... WHERE symbol = ?
get_latest_date(symbol, tbl) ==
    IF SymbolRows(symbol, tbl) = {} THEN NoDate
    ELSE Max({r.date : r \in SymbolRows(symbol, tbl)})

\* variant: the table has no UNIQUE(symbol, date), every insert adds a row
InsertOrReplace_NoUnique(tbl, row) == tbl (+) SetToBag({row})
\* variant: INSERT OR IGNORE, the row stored first is kept
InsertOrReplace_Ignore(tbl, row) ==
    IF \E x \in BagToSet(tbl) : Key(x) = Key(row) THEN tbl
    ELSE tbl (+) SetToBag({row})

\* INSERT OR REPLACE under UNIQUE(symbol, date): the rows in conflict with
\* the new one are deleted, then the new row is inserted
InsertOrReplace(tbl, row) ==
    [r \in {x \in BagToSet(tbl) : Key(x) # Key(row)} |-> tbl[r]] (+) SetToBag({row})

\* insert_historical_data: rows are merged in the order of the frame; a row
\* whose INSERT raises (IntegrityError: date is NULL) is skipped and not
\* counted.  The result is the table after the commit and the count.
RECURSIVE insert_historical_data(_, _, _)
insert_historical_data(symbol, df, tbl) ==
    IF df = <<>> THEN [table |-> tbl, inserted |-> 0]
    ELSE LET row == Head(df) IN
         IF row.date = NoDate
         THEN insert_historical_data(symbol, Tail(df), tbl)
         ELSE LET r == insert_historical_data(symbol, Tail(df),
                           InsertOrReplace(tbl, PriceRow(symbol, row.date, row.close)))
              IN [table |-> r.table, inserted |-> r.inserted + 1]

\* ------------------------------------------------------------- provider
\* The values a provider row can carry: a number, or text that is none
Closes == {"10.0", "N/A"}
\* The Date field of a provider row: a day in one of two notations, or absent
DateFormats == {"%Y-%m-%d", "%m/%d/%Y"}
NoDateField == [day |-> NoDate, fmt |-> None]
ProviderDates(from, to) == [day : from..to, fmt : DateFormats] \cup {NoDateField}
\* pd.to_datetime(...).dt.strftime('%Y-%m-%d') (line 78): every notation
\* of a day becomes the same text, an absent date stays absent
NormalizeDate(d) == IF d = NoDateField THEN NoDate ELSE d.day

ProviderRows(from, to) == [Date : ProviderDates(from, to), Close : Closes]
RECURSIVE SeqsUpTo(_, _)
SeqsUpTo(S, n) == IF n = 0 THEN {<<>>}
                  ELSE LET shorter == SeqsUpTo(S, n - 1)
                       IN shorter \cup {Append(q, x) : q \in {t \in shorter : Len(t) = n - 1}, x \in S}

\* what the provider can answer to a request for [from, to]: rows of that
\* window (in any order, a day possibly twice), no rows, or a failure
ProviderResponses(from, to) ==
    [kind : {"rows"}, rows : SeqsUpTo(ProviderRows(from, to), MaxBatch) \ {<<>>}]
    \cup [kind : {"no_data"} \cup FetchFailures, rows : {<<>>}]

\* the DataFrame fetch_nasdaq_incremental returns (74-81); <<>> is None
MarketData(resp) ==
    IF fetch_nasdaq_incremental(resp.kind) = None THEN <<>>
    ELSE [i \in 1..Len(resp.rows) |->
            [date |-> NormalizeDate(resp.rows[i].Date), close |-> resp.rows[i].Close]]

\* variant: the window starts at the cursor day itself
SyncWindow_FromCursor(latest_date, force_full, now_dt) ==
    IF force_full \/ latest_date = NoDate
    THEN [fetch |-> TRUE, start_date |-> now_dt - timedelta(LookbackDays)]
    ELSE LET start_date == strptime(latest_date)
             days_behind == days(now_dt - start_date)
         IN [fetch |-> days_behind > 0, start_date |-> start_date]

\* incremental_fetch_symbol, lines 146-167: whether a request is made and
\* the start of the window it asks for
SyncWindow(latest_date, force_full, now_dt) ==
    IF force_full \/ latest_date = NoDate
    THEN [fetch |-> TRUE, start_date |-> now_dt - timedelta(LookbackDays)]
    ELSE LET start_date == strptime(latest_date) + timedelta(1)
             days_behind == days(now_dt - start_date)
         IN [fetch |-> days_behind > 0, start_date |-> start_date]

\* ------------------------------------------------------ indicator engine
NaN == "NaN"
\* pd.to_numeric(..., errors='coerce')
to_numeric(v) == IF v = "N/A" THEN NaN ELSE v
\* the rows left by dropna (line 59)
ValidRows(symbol, tbl) == {r \in SymbolRows(symbol, tbl) : to_numeric(r.close) # NaN}
\* len(df) of load_historical_data
RowCount(symbol, tbl) == BagCardinality([r \in SymbolRows(symbol, tbl) |-> tbl[r]])

\* variant: the second length check (61-63) is missing
IndicatorOutcome_NoCleanupCheck(symbol, tbl) ==
    IF RowCount(symbol, tbl) < MinRows \/ ValidRows(symbol, tbl) = {} THEN "insufficient"
    ELSE "stored"

\* lines 46-63: what calculate_and_store_indicators does when nothing raises
IndicatorOutcome(symbol, tbl) ==
    IF RowCount(symbol, tbl) < MinRows THEN "insufficient"
    ELSE IF Cardinality(ValidRows(symbol, tbl)) < MinRows THEN "insufficient"
    ELSE "stored"

\* A float of the frame, kept as far as the stored row depends on it: not
\* a number, an infinity, or a number
Float(kind) == [kind |-> kind]
\* what sqlite3 stores for a float parameter: NaN becomes NULL, every
\* other value (the infinities too) is stored as it is
Bind(x) == IF x.kind = "nan" THEN Float("null") ELSE x

\* the longest timeperiod of a talib call (EMA and SMA, timeperiod=200):
\* the same number as the row threshold of lines 48 and 61
MaxPeriod == MinRows
\* talib.SMA(series, timeperiod) at the last of n rows: NaN until the
\* window is full
SMA(n, timeperiod) == IF n < timeperiod THEN Float("nan") ELSE Float("finite")

\* variant: the row is taken from the first line of the frame
Snapshot_FirstRow(symbol, tbl, now_dt) ==
    LET valid == ValidRows(symbol, tbl)
        latest == CHOOSE r \in valid : \A x \in valid : r.date <= x.date
    IN [symbol |-> symbol, date |-> latest.date,
        data_age_days |-> days(now_dt - strptime(latest.date)),
        sma_200 |-> Bind(SMA(Cardinality(valid), MaxPeriod)),
        last_calculated |-> now_dt]

\* lines 139-142 and the parameters of the INSERT at 175-195: the last
\* row of the cleaned frame (ORDER BY date ASC), the age, the indicator
\* with the longest window, the time of the calculation
Snapshot(symbol, tbl, now_dt) ==
    LET valid == ValidRows(symbol, tbl)
        latest == CHOOSE r \in valid : \A x \in valid : x.date <= r.date
    IN [symbol |-> symbol, date |-> latest.date,
        data_age_days |-> days(now_dt - strptime(latest.date)),
        sma_200 |-> Bind(SMA(Cardinality(valid), MaxPeriod)),
        last_calculated |-> now_dt]

\* the rows of stock_indicators for one symbol
SnapshotRows(symbol, tbl) == [r \in {x \in BagToSet(tbl) : x.symbol = symbol} |-> tbl[r]]
\* variant: stock_indicators has no PRIMARY KEY, every insert adds a row
ReplaceSnapshot_NoKey(tbl, row) == tbl (+) SetToBag({row})
\* INSERT OR REPLACE INTO stock_indicators under PRIMARY KEY(symbol)
ReplaceSnapshot(tbl, row) ==
    [r \in {x \in BagToSet(tbl) : x.symbol # row.symbol} |-> tbl[r]] (+) SetToBag({row})

\* ------------------------------------------------------- stage processes
\* todo: the futures not completed yet; outcome: what happened to each
\* completed one (the counters of 195-197 and 212-213 follow from it);
\* tx: per connection of process_symbol, the row of its open transaction
\* (executed at line 149, not committed yet)
NoBatch == [todo |-> {}, force_full |-> FALSE, outcome |-> <<>>]
NoCalc == [todo |-> {}, outcome |-> <<>>, tx |-> <<>>]
NoOp == [op |-> "none"]

\* ============================================================ job manager
NotRun == [kind |-> "not_run"]
\* pc, error_msg and state are the thread's position and locals; the other
\* fields remember, for the properties, what happened in this run:
\*   fetch, process     how subprocess.run ended for each stage
\*   wrote_processing   this run has persisted status 'processing'
NotLaunched == [pc |-> "unborn", error_msg |-> None, state |-> <<>>,
                fetch |-> NotRun, process |-> NotRun, wrote_processing |-> FALSE]
\* hist, for the run started last (worker current_thread):
\*   all_fetch_failed   the provider failed for every symbol of its sync stage
\*   item_errors        some symbol met a per-item error in one of its stages
NoItemErrors == [all_fetch_failed |-> FALSE, item_errors |-> FALSE]
\* a thread that has returned from _run_refresh_job
Finished == [NotLaunched EXCEPT !.pc = "done"]
NoCall == [op |-> "none"]

\* the manager after construction, no state file found
JobInit ==
    /\ file = ensure_state_file(Missing)
    /\ lock = Free
    /\ current_thread = 0
    /\ workers = [w \in Workers |-> NotLaunched]
    /\ now = 1
    /\ ret = NoCall
    /\ hist = NoItemErrors

\* the database after init_database.py: empty tables; no script running
StoreInit ==
    /\ today = FirstDay
    /\ prices = EmptyBag
    /\ stocks = {}
    /\ indicators = EmptyBag
    /\ batch = NoBatch
    /\ calc = NoCalc
    /\ last = NoOp

Init == JobInit /\ StoreInit

\* variant: only 'fetching' counts as running
IsRunning_FetchingOnly(state) == Get(state, "status") = "fetching"
\* variant: a failed run blocks the next start as well
IsRunning_OrFailed(state) == Get(state, "status") \in RunningStatuses \cup {"failed"}

\* line 85 (and is_running, line 75)
IsRunning(state) == Get(state, "status") \in RunningStatuses

\* variant: a status read that rewrites a state file it cannot parse
get_status_Repairs ==
    /\ CanAcquire(lock)
    /\ UNCHANGED store
    /\ ret' = [op |-> "get_status", returned |-> TRUE, value |-> LoadState(file)]
    /\ file' = IF file.readable THEN file ELSE Saved(IdleState(NoTime))
    /\ UNCHANGED <<lock, current_thread, workers, now, hist>>

\* get_status (67-70)
get_status ==
    /\ CanAcquire(lock)
    /\ UNCHANGED store
    /\ ret' = [op |-> "get_status", returned |-> TRUE, value |-> LoadState(file)]
    /\ UNCHANGED <<file, lock, current_thread, workers, now, hist>>

\* the state start_refresh writes (93-104)
FetchingState(t) ==
    [status |-> "fetching", phase |-> "fetch", started_at |-> t,
     completed_at |-> NoTime, last_successful_refresh |-> NoTime,
     error |-> None,
     progress |-> [current_phase |-> "Fetching stock data from NASDAQ",
                   message |-> "Incrementally updating data for S&P 500 stocks..."]]

Launched == {w \in Workers : workers[w].pc # "unborn"}

\* start_refresh (77-115), atomic under the lock
start_refresh ==
    /\ CanAcquire(lock)
    /\ UNCHANGED store
    /\ LET current_state == LoadState(file) IN
       IF IsRunning(current_state)
       THEN /\ ret' = [op |-> "start_refresh", returned |-> TRUE, success |-> FALSE,
                       message |-> "A refresh job is already running",
                       status |-> current_state,
                       loaded |-> Get(current_state, "status")]
            /\ UNCHANGED <<file, lock, current_thread, workers, now, hist>>
       ELSE /\ Cardinality(Launched) < MaxRuns
            /\ LET state == FetchingState(now)
                   w == Cardinality(Launched) + 1
               IN /\ file' = Saved(state)
                  /\ current_thread' = w
                  /\ workers' = [workers EXCEPT ![w].pc = "start"]
                  /\ ret' = [op |-> "start_refresh", returned |-> TRUE, success |-> TRUE,
                             message |-> "Data refresh job started",
                             status |-> state,
                             loaded |-> Get(current_state, "status")]
            /\ now' = now + 1
            /\ hist' = NoItemErrors
            /\ UNCHANGED lock

\* reset_to_idle (212-242).  Line 214 takes the lock; line 215 calls
\* is_running -> get_status, which takes the same lock again (line 69).
reset_to_idle ==
    /\ CanAcquire(lock)
    /\ UNCHANGED store
    /\ LET held == "reset_to_idle" IN
       IF CanAcquire(held)
       THEN IF IsRunning(LoadState(file))
            THEN /\ ret' = [op |-> "reset_to_idle", returned |-> TRUE, success |-> FALSE,
                            message |-> "Cannot reset while job is running"]
                 /\ UNCHANGED <<file, lock, current_thread, workers, now, hist>>
            ELSE /\ file' = Saved(IdleState(Get(LoadState(file), "last_successful_refresh")))
                 /\ ret' = [op |-> "reset_to_idle", returned |-> TRUE, success |-> TRUE,
                            message |-> "Job status reset to idle"]
                 /\ UNCHANGED <<lock, current_thread, workers, now, hist>>
       ELSE \* the caller waits for its own lock and never returns
            /\ lock' = held
            /\ ret' = [op |-> "reset_to_idle", returned |-> FALSE]
            /\ UNCHANGED <<file, current_thread, workers, now, hist>>

\* _update_progress (186-196): the dict it saves
update_progress(state, status, message) ==
    Put(Put(Put(state, "status", status), "phase", status),
        "progress", [current_phase |-> Capitalize(status), message |-> message])

\* _mark_failed (198-210): the dict it saves
mark_failed(state, error_message, t) ==
    Put(Put(Put(Put(Put(state, "status", "failed"), "phase", "failed"),
                "completed_at", t), "error", error_message),
        "progress", [current_phase |-> "Failed", message |-> error_message])

\* variant: last_successful_refresh is left unset
CompletedState_NoRefresh(started_at, completed_time) ==
    [status |-> "completed", phase |-> "completed", started_at |-> started_at,
     completed_at |-> completed_time, last_successful_refresh |-> NoTime,
     error |-> None,
     progress |-> [current_phase |-> "Completed",
                   message |-> "Data refresh completed successfully"]]

\* the state the worker builds at 160-172
CompletedState(started_at, completed_time) ==
    [status |-> "completed", phase |-> "completed", started_at |-> started_at,
     completed_at |-> completed_time, last_successful_refresh |-> completed_time,
     error |-> None,
     progress |-> [current_phase |-> "Completed",
                   message |-> "Data refresh completed successfully"]]

\* line 127: _update_progress('fetching', ...), under the lock
UpdateFetching(w) ==
    /\ workers[w].pc = "start"
    /\ UNCHANGED store
    /\ CanAcquire(lock)
    /\ file' = Saved(update_progress(LoadState(file), "fetching",
                  "Fetching new stock data from NASDAQ API (incremental)..."))
    /\ workers' = [workers EXCEPT ![w].pc = "fetch"]
    /\ ret' = NoCall
    /\ UNCHANGED <<lock, current_thread, now, hist>>

\* how subprocess.run ended: the exception it raised, or the exit status
\* and whether the child died of an exception outside its per-item handlers
StageRecord(kind, env, result) ==
    IF kind # "exited" THEN [kind |-> kind]
    ELSE [kind |-> kind, returncode |-> result.returncode, crash |-> env.crash]


\* lines 129-140 and the handlers 176-184 up to the call of _mark_failed
FetchReturns(w) ==
    /\ workers[w].pc = "fetch"
    /\ UNCHANGED store
    /\ \E kind \in RunKinds :
       \E env \in IF kind = "exited" THEN SyncEnvs ELSE {CHOOSE e \in SyncEnvs : TRUE} :
         LET result == incremental_fetch_main(env)
             error_msg == StageError(kind, result, "Fetch failed: ",
                                     Get(LoadState(file), "phase"))
         IN /\ workers' = [workers EXCEPT
                ![w].fetch = StageRecord(kind, env, result),
                ![w].error_msg = error_msg,
                ![w].pc = IF error_msg = None THEN "update_processing" ELSE "mark_failed"]
            /\ hist' = IF w = current_thread /\ kind = "exited"
                       THEN [all_fetch_failed |-> AllFetchFailed(env),
                             item_errors |-> FetchItemErrors(env)]
                       ELSE hist
    /\ ret' = NoCall
    /\ UNCHANGED <<file, lock, current_thread, now>>

\* line 144: _update_progress('processing', ...), under the lock
UpdateProcessing(w) ==
    /\ workers[w].pc = "update_processing"
    /\ UNCHANGED store
    /\ CanAcquire(lock)
    /\ file' = Saved(update_progress(LoadState(file), "processing",
                  "Processing data and calculating technical indicators..."))
    /\ workers' = [workers EXCEPT ![w].pc = "process", ![w].wrote_processing = TRUE]
    /\ ret' = NoCall
    /\ UNCHANGED <<lock, current_thread, now, hist>>

\* lines 146-157 and the handlers 176-184 up to the call of _mark_failed
ProcessReturns(w) ==
    /\ workers[w].pc = "process"
    /\ UNCHANGED store
    /\ \E kind \in RunKinds :
       \E env \in IF kind = "exited" THEN IndicatorEnvs ELSE {CHOOSE e \in IndicatorEnvs : TRUE} :
         LET result == process_indicators_main(env)
             error_msg == StageError(kind, result, "Processing failed: ",
                                     Get(LoadState(file), "phase"))
         IN /\ workers' = [workers EXCEPT
                ![w].process = StageRecord(kind, env, result),
                ![w].error_msg = error_msg,
                ![w].pc = IF error_msg = None THEN "completed" ELSE "mark_failed"]
            /\ hist' = IF w = current_thread /\ kind = "exited" /\ ProcessItemErrors(env)
                       THEN [hist EXCEPT !.item_errors = TRUE]
                       ELSE hist
    /\ ret' = NoCall
    /\ UNCHANGED <<file, lock, current_thread, now>>

\* lines 160-172: read the clock, read started_at from the file (no lock)
BuildCompleted(w) ==
    /\ workers[w].pc = "completed"
    /\ UNCHANGED store
    /\ workers' = [workers EXCEPT
           ![w].state = CompletedState(Get(LoadState(file), "started_at"), now),
           ![w].pc = "save_open"]
    /\ now' = now + 1
    /\ ret' = NoCall
    /\ UNCHANGED <<file, lock, current_thread, hist>>

\* line 173, _save_state line 62: open(path, 'w') truncates (no lock)
SaveOpen(w) ==
    /\ workers[w].pc = "save_open"
    /\ UNCHANGED store
    /\ file' = Truncated
    /\ workers' = [workers EXCEPT ![w].pc = "save_write"]
    /\ ret' = NoCall
    /\ UNCHANGED <<lock, current_thread, now, hist>>

\* what a write at offset 0 through a handle opened earlier leaves in the
\* file: the document if the file is still empty; the document or an
\* unparsable overlay if another writer has filled the file meanwhile
WriteOver(f, state) ==
    IF f = Truncated THEN {Saved(state)} ELSE {Saved(state), Garbled}

\* line 173, _save_state line 63 and the close: the document reaches the file
SaveWrite(w) ==
    /\ workers[w].pc = "save_write"
    /\ UNCHANGED store
    /\ file' \in WriteOver(file, workers[w].state)
    /\ workers' = [workers EXCEPT ![w] = Finished]
    /\ ret' = NoCall
    /\ UNCHANGED <<lock, current_thread, now, hist>>

\* lines 179 / 184: _mark_failed(error_msg), under the lock
MarkFailed(w) ==
    /\ workers[w].pc = "mark_failed"
    /\ UNCHANGED store
    /\ CanAcquire(lock)
    /\ file' = Saved(mark_failed(LoadState(file), workers[w].error_msg, now))
    /\ workers' = [workers EXCEPT ![w] = Finished]
    /\ now' = now + 1
    /\ ret' = NoCall
    /\ UNCHANGED <<lock, current_thread, hist>>

WorkerStep(w) ==
    \/ UpdateFetching(w)
    \/ FetchReturns(w)
    \/ UpdateProcessing(w)
    \/ ProcessReturns(w)
    \/ BuildCompleted(w)
    \/ SaveOpen(w)
    \/ SaveWrite(w)
    \/ MarkFailed(w)

Next ==
    \/ get_status
    \/ start_refresh
    \/ reset_to_idle
    \/ \E w \in Workers : WorkerStep(w)

Spec == Init /\ [][Next]_vars

\* The worker threads are scheduled fairly: a thread that can take its next
\* step (its subprocess returns or times out, its lock can be had) takes it.
FairSpec == Spec /\ \A w \in Workers : WF_vars(WorkerStep(w))

\* The server process ends (kill, crash, redeploy) and a new one imports
\* job_manager.py: the daemon threads of the old process are gone with
\* their locals, the new manager has a fresh lock and no thread handle,
\* and __init__ runs _ensure_state_file on whatever file was left.
Restart ==
    /\ file' = ensure_state_file(file)
    /\ UNCHANGED store
    /\ lock' = Free
    /\ current_thread' = 0
    /\ workers' = [w \in Workers |->
                     IF workers[w].pc = "unborn" THEN NotLaunched ELSE Finished]
    /\ ret' = [op |-> "restart"]
    /\ hist' = NoItemErrors
    /\ UNCHANGED now

RestartNext ==
    \/ Next
    \/ Restart

RestartSpec == Init /\ [][RestartNext]_vars

\* ========================================================= the sync stage
\* incremental_fetch_all starts (189-203): every symbol of the list is
\* submitted to the pool.
FetchAllStart ==
    /\ batch.todo = {}
    /\ \E force_full \in BOOLEAN :
         batch' = [NoBatch EXCEPT !.todo = Symbols, !.force_full = force_full]
    /\ last' = NoOp
    /\ UNCHANGED <<today, prices, stocks, indicators, calc>>
    /\ UNCHANGED jobs

\* One future of the pool: incremental_fetch_symbol(symbol, conn,
\* force_full) from its first line to its return, and the lines 206-221
\* that take its result.  last records the cursor read, the request made
\* (from = NoDate: none), the newest date among the rows received and the
\* count returned.
SyncSymbol(symbol) ==
    /\ symbol \in batch.todo
    /\ \E tod \in 0..(TicksPerDay - 1), db_error \in BOOLEAN :
         LET now_dt == DateTime(today, tod)
             latest_date == get_latest_date(symbol, prices)
             w == SyncWindow(latest_date, batch.force_full, now_dt)
             call == [op |-> "sync", symbol |-> symbol, cursor |-> latest_date,
                      from |-> NoDate, to |-> NoDate,
                      newest |-> NoDate, inserted |-> 0]
         IN IF db_error
            THEN \* a sqlite call raises before anything is written
                 /\ batch' = [batch EXCEPT !.todo = @ \ {symbol},
                                 !.outcome = Put(@, symbol, "db_error")]
                 /\ last' = call
                 /\ UNCHANGED <<prices, stocks>>
            ELSE IF ~w.fetch
            THEN \* 'Up to date': return 0 without a request
                 /\ batch' = [batch EXCEPT !.todo = @ \ {symbol},
                                 !.outcome = Put(@, symbol, "up_to_date")]
                 /\ last' = call
                 /\ stocks' = stocks \cup {symbol}
                 /\ UNCHANGED prices
            ELSE \E resp \in ProviderResponses(strftime(w.start_date), strftime(now_dt)) :
                   LET df == MarketData(resp)
                       merged == insert_historical_data(symbol, df, prices)
                   IN /\ prices' = merged.table
                      /\ stocks' = stocks \cup {symbol}
                      /\ batch' = [batch EXCEPT !.todo = @ \ {symbol},
                                      !.outcome = Put(@, symbol, resp.kind)]
                      /\ last' = [call EXCEPT
                            !.from = strftime(w.start_date),
                            !.to = strftime(now_dt),
                            !.newest = Max({df[i].date : i \in 1..Len(df)} \cup {NoDate}),
                            !.inserted = merged.inserted]
    /\ UNCHANGED <<today, indicators, calc>>
    /\ UNCHANGED jobs

\* midnight passes
NextDay ==
    /\ today < LastDay
    /\ today' = today + 1
    /\ last' = [op |-> "next_day"]
    /\ UNCHANGED <<prices, stocks, indicators, batch, calc>>
    /\ UNCHANGED jobs

SyncNext ==
    \/ FetchAllStart
    \/ \E symbol \in Symbols : SyncSymbol(symbol)
    \/ NextDay

\* runs of incremental_fetch.py, one after the other, over the days
SyncSpec == Init /\ [][SyncNext]_vars

\* ==================================================== the indicator stage
\* The tables a sequence of syncs can leave by the first day: any rows of
\* the days up to it, no two with the same (symbol, date)
StoredRows == {PriceRow(symbol, date, close) :
                 symbol \in Symbols, date \in (FirstDay - LookbackDays)..FirstDay,
                 close \in Closes}
PriceTables == {SetToBag(S) : S \in {T \in SUBSET StoredRows :
                                       \A x, y \in T : Key(x) = Key(y) => x = y}}

\* The histories the indicator stage can find: BBB with any rows of the
\* MinRows + 1 days up to the first day, AAA with none or with one row of
\* every one of these days; no two rows with the same (symbol, date)
HistoryDays == (FirstDay - MinRows)..FirstDay
HistoryRows == {PriceRow("BBB", date, close) : date \in HistoryDays, close \in Closes}
FullHistory == {PriceRow("AAA", date, "10.0") : date \in HistoryDays}
HistoryTables == {SetToBag(S \cup B) :
                    S \in {T \in SUBSET HistoryRows : \A x, y \in T : Key(x) = Key(y) => x = y},
                    B \in {{}, FullHistory}}

\* process_indicators.py is run on whatever the syncs have stored; every
\* symbol with rows is in stocks (ensure_stock_exists comes before any insert)
IndicatorInit ==
    /\ JobInit
    /\ today = FirstDay
    /\ prices \in HistoryTables
    /\ stocks \in {S \in SUBSET Symbols :
                     S # {} /\ \A symbol \in Symbols : SymbolRows(symbol, prices) # {} => symbol \in S}
    /\ indicators = EmptyBag
    /\ batch = NoBatch
    /\ calc = NoCalc
    /\ last = NoOp

\* process_indicators.py starts: main reads the symbols (253-255) and
\* process_all_indicators submits them (221-222).
ProcessStart ==
    /\ calc.todo = {}
    /\ stocks # {}
    /\ calc' = [NoCalc EXCEPT !.todo = stocks]
    /\ last' = NoOp
    /\ UNCHANGED <<today, prices, stocks, indicators, batch>>
    /\ UNCHANGED jobs

\* One future of the pool, from process_symbol(symbol) (215-219) to the
\* execution of the INSERT OR REPLACE (149) or to an earlier return, with
\* the lines 225-240 that count a result.  raises: nothing, an exception
\* inside calculate_and_store_indicators (caught at 201), or
\* sqlite3.connect raising in process_symbol.  The statement is executed
\* in the transaction of the future's own connection; SQLite admits one
\* write transaction at a time.
CalcSymbol(symbol) ==
    /\ symbol \in calc.todo
    /\ symbol \notin DOMAIN calc.tx
    /\ \E tod \in 0..(TicksPerDay - 1), raises \in {"no", "calc_error", "conn_error"} :
         LET o == IF raises # "no" THEN raises ELSE IndicatorOutcome(symbol, prices)
         IN IF o = "stored"
            THEN /\ DOMAIN calc.tx = {}
                 /\ calc' = [calc EXCEPT
                               !.tx = Put(@, symbol, Snapshot(symbol, prices, DateTime(today, tod)))]
                 /\ last' = [op |-> "execute", symbol |-> symbol]
            ELSE /\ calc' = [calc EXCEPT !.todo = @ \ {symbol},
                                         !.outcome = Put(@, symbol, o)]
                 /\ last' = [op |-> "calc", symbol |-> symbol, outcome |-> o]
    /\ UNCHANGED <<today, prices, stocks, indicators, batch>>
    /\ UNCHANGED jobs

\* variant: an error of one symbol ends the batch, the futures left are
\* dropped
CommitSymbol_ErrorEndsBatch(symbol) ==
    /\ symbol \in DOMAIN calc.tx
    /\ \E committed \in BOOLEAN :
         LET o == IF committed THEN "stored" ELSE "calc_error"
         IN /\ indicators' = IF committed
                             THEN ReplaceSnapshot(indicators, calc.tx[symbol])
                             ELSE indicators
            /\ calc' = [todo |-> IF committed THEN calc.todo \ {symbol} ELSE {},
                        outcome |-> Put(calc.outcome, symbol, o),
                        tx |-> [s \in DOMAIN calc.tx \ {symbol} |-> calc.tx[s]]]
            /\ last' = [op |-> "calc", symbol |-> symbol, outcome |-> o]
    /\ UNCHANGED <<today, prices, stocks, batch>>
    /\ UNCHANGED jobs

\* conn.commit() (197) of the future's transaction and the return: the row
\* replaces the symbol's row in the table all at once; or the commit
\* raises (database is locked, disk I/O error), the exception is caught at
\* 201 and conn.close() (218) rolls the transaction back.
CommitSymbol(symbol) ==
    /\ symbol \in DOMAIN calc.tx
    /\ \E committed \in BOOLEAN :
         LET o == IF committed THEN "stored" ELSE "calc_error"
         IN /\ indicators' = IF committed
                             THEN ReplaceSnapshot(indicators, calc.tx[symbol])
                             ELSE indicators
            /\ calc' = [todo |-> calc.todo \ {symbol},
                        outcome |-> Put(calc.outcome, symbol, o),
                        tx |-> [s \in DOMAIN calc.tx \ {symbol} |-> calc.tx[s]]]
            /\ last' = [op |-> "calc", symbol |-> symbol, outcome |-> o]
    /\ UNCHANGED <<today, prices, stocks, batch>>
    /\ UNCHANGED jobs

\* a reader on another connection (the API's SELECT on stock_indicators,
\* app.py:166) sees the committed table
ReadSnapshot(symbol) ==
    /\ last' = [op |-> "read", symbol |-> symbol,
                rows |-> SnapshotRows(symbol, indicators)]
    /\ UNCHANGED <<today, prices, stocks, indicators, batch, calc>>
    /\ UNCHANGED jobs

IndicatorNext ==
    \/ ProcessStart
    \/ \E symbol \in Symbols : CalcSymbol(symbol)
    \/ \E symbol \in Symbols : CommitSymbol(symbol)
    \/ \E symbol \in Symbols : ReadSnapshot(symbol)
    \/ NextDay

\* runs of process_indicators.py, one after the other, over the days, and
\* readers of the snapshots
IndicatorSpec == IndicatorInit /\ [][IndicatorNext]_vars

\* ================================================= first sync and compute
\* more rows than the indicator stage needs
ScenarioRows == MinRows + 1

\* the provider answers an initial request with one numeric row for each
\* of the ScenarioRows days that end on the given day, oldest first or
\* newest first, each date in any notation
ScenarioResponses(day) ==
    [kind : {"rows"},
     rows : {[i \in 1..ScenarioRows |->
                [Date |-> [day |-> IF oldest_first THEN day - ScenarioRows + i
                                   ELSE day - i + 1,
                           fmt |-> fmt[i]],
                 Close |-> "10.0"]] :
               oldest_first \in BOOLEAN, fmt \in [1..ScenarioRows -> DateFormats]}]

\* incremental_fetch_symbol(symbol, conn) for a symbol without rows, the
\* provider answering as above
InitialSync(symbol) ==
    /\ SymbolRows(symbol, prices) = {}
    /\ \E tod \in 0..(TicksPerDay - 1), resp \in ScenarioResponses(today) :
         LET now_dt == DateTime(today, tod)
             latest_date == get_latest_date(symbol, prices)
             w == SyncWindow(latest_date, FALSE, now_dt)
             df == MarketData(resp)
             merged == insert_historical_data(symbol, df, prices)
         IN /\ w.fetch
            /\ prices' = merged.table
            /\ stocks' = stocks \cup {symbol}
            /\ last' = [op |-> "sync", symbol |-> symbol, cursor |-> latest_date,
                        from |-> strftime(w.start_date), to |-> strftime(now_dt),
                        newest |-> Max({df[i].date : i \in 1..Len(df)}),
                        inserted |-> merged.inserted]
    /\ UNCHANGED <<today, indicators, batch, calc>>
    /\ UNCHANGED jobs

ScenarioNext ==
    \/ \E symbol \in Symbols : InitialSync(symbol)
    \/ ProcessStart
    \/ \E symbol \in Symbols : CalcSymbol(symbol)
    \/ \E symbol \in Symbols : CommitSymbol(symbol)
    \/ \E symbol \in Symbols : ReadSnapshot(symbol)
    \/ NextDay

\* an empty database, first syncs, runs of process_indicators.py
ScenarioSpec == Init /\ [][ScenarioNext]_vars

\* ==================================================== the derived values
MaxPrice == 2       \* prices of a bar: 0..MaxPrice
MaxVolume == 1      \* volumes of a bar: 0..MaxVolume
BarsPerFrame == 2   \* rows of the cleaned frame; every window covers them all

\* the rows of the frame after the cleanup (53-59): numbers, with the low
\* not above the close and the close not above the high
Bars == {b \in [low : 0..MaxPrice, close : 0..MaxPrice, high : 0..MaxPrice,
                volume : 0..MaxVolume] : b.low <= b.close /\ b.close <= b.high}
BarFrames == [1..BarsPerFrame -> Bars]

RECURSIVE Sum(_, _)
Sum(f, n) == IF n = 0 THEN 0 ELSE f[n] + Sum(f, n - 1)
Min(S) == CHOOSE x \in S : \A y \in S : x <= y
Abs(x) == IF x < 0 THEN 0 - x ELSE x

\* talib.ATR is an average of the true ranges (the largest of high - low,
\* |high - previous close|, |low - previous close|): it is zero exactly
\* when every true range is zero.  The sum stands for the average.
TrueRange(df, i) ==
    Max({df[i].high - df[i].low,
         Abs(df[i].high - df[i - 1].close),
         Abs(df[i].low - df[i - 1].close)})
ATR(df) == Sum([i \in 1..(Len(df) - 1) |-> TrueRange(df, i + 1)], Len(df) - 1)

\* float64 division as numpy does it: x / 0 is an infinity, 0 / 0 is NaN,
\* no exception is raised
Divide(num, den) ==
    IF den # 0 THEN Float("finite")
    ELSE IF num = 0 THEN Float("nan") ELSE Float("inf")

\* numerator and denominator of every derived value at the last row (lines
\* 111 and 121-133), each multiplied by the length of the window so that
\* the means stay whole numbers.  The Bollinger bands are the mean -/+ two
\* standard deviations: their distance is zero exactly when the closes of
\* the window are all equal, and 1 stands for a distance above zero.
Ratios(df) ==
    LET n == Len(df)
        latest == df[n]
        sum_close == Sum([i \in 1..n |-> df[i].close], n)
        sum_volume == Sum([i \in 1..n |-> df[i].volume], n)
        high_52w == Max({df[i].high : i \in 1..n})
        low_52w == Min({df[i].low : i \in 1..n})
        band_distance == IF \A i \in 1..n : df[i].close = latest.close THEN 0 ELSE 1
    IN [bb_width |-> [num |-> band_distance, den |-> sum_close],
        bb_position |-> [num |-> IF band_distance = 0 THEN n * latest.close - sum_close ELSE 1,
                         den |-> band_distance],
        relative_volume |-> [num |-> n * latest.volume, den |-> sum_volume],
        atr_pct |-> [num |-> ATR(df), den |-> latest.close],
        price_vs_sma20_pct |-> [num |-> n * latest.close - sum_close, den |-> sum_close],
        pct_from_52w_high |-> [num |-> latest.close - high_52w, den |-> high_52w],
        pct_from_52w_low |-> [num |-> latest.close - low_52w, den |-> low_52w],
        range_52w_position |-> [num |-> latest.close - low_52w,
                                den |-> high_52w - low_52w]]

\* the derived columns of the row stored at 149-195
DerivedRow(df) ==
    [field \in DOMAIN Ratios(df) |->
       Bind(Divide(Ratios(df)[field].num, Ratios(df)[field].den))]

\* calculate_and_store_indicators has loaded and cleaned a frame
DerivedInit ==
    /\ JobInit
    /\ today = FirstDay
    /\ prices = EmptyBag
    /\ stocks = {"AAA"}
    /\ indicators = EmptyBag
    /\ batch = NoBatch
    /\ calc \in {[todo |-> {"AAA"}, outcome |-> <<>>, tx |-> <<>>, df |-> df] :
                   df \in BarFrames}
    /\ last = NoOp

\* lines 110-133 and the binding of the INSERT's parameters
Derive ==
    /\ last.op = "none"
    /\ last' = [op |-> "derive", symbol |-> "AAA", row |-> DerivedRow(calc.df)]
    /\ UNCHANGED <<today, prices, stocks, indicators, batch, calc>>
    /\ UNCHANGED jobs

DerivedNext == Derive

DerivedSpec == DerivedInit /\ [][DerivedNext]_vars

\* ============================================================== the merge
MaxFrame == 2       \* rows of a DataFrame handed to insert_historical_data

\* the frames fetch_nasdaq_incremental can return for the first day
Frames == SeqsUpTo([date : ((FirstDay - LookbackDays)..FirstDay) \cup {NoDate},
                    close : Closes], MaxFrame) \ {<<>>}

MergeInit ==
    /\ JobInit
    /\ today = FirstDay
    /\ prices \in PriceTables
    /\ stocks = Symbols
    /\ indicators = EmptyBag
    /\ batch = NoBatch
    /\ calc = NoCalc
    /\ last = NoOp

\* insert_historical_data(symbol, df, conn) on a stored table; last keeps
\* the arguments and the count returned
Merge ==
    /\ last.op = "none"
    /\ \E symbol \in Symbols, df \in Frames :
         LET merged == insert_historical_data(symbol, df, prices)
         IN /\ prices' = merged.table
            /\ last' = [op |-> "merge", symbol |-> symbol, df |-> df,
                        before |-> prices, inserted |-> merged.inserted]
    /\ UNCHANGED <<today, stocks, indicators, batch, calc>>
    /\ UNCHANGED jobs

\* the same frame is merged a second time
MergeAgain ==
    /\ last.op = "merge"
    /\ LET merged == insert_historical_data(last.symbol, last.df, prices)
       IN /\ prices' = merged.table
          /\ last' = [last EXCEPT !.op = "merge_again", !.before = prices,
                                  !.inserted = merged.inserted]
    /\ UNCHANGED <<today, stocks, indicators, batch, calc>>
    /\ UNCHANGED jobs

MergeNext ==
    \/ Merge
    \/ MergeAgain

MergeSpec == MergeInit /\ [][MergeNext]_vars

\* ============================================================= properties
PersistedStatus == Get(LoadState(file), "status")
StatusOnDisk(st) == file.readable /\ file.json.status = st
StageOk(rec) == rec.kind = "exited" /\ rec.returncode = 0
\* a stage-level failure: the stage timed out, could not be launched, or
\* its process died outside the per-item handlers
StageFailed(rec) == rec.kind \in {"timeout", "oserror"} \/ (rec.kind = "exited" /\ rec.crash)
AcceptedStart == ret.op = "start_refresh" /\ ret.success

\* C1 (single-flight): at most one worker thread is executing the sync or
\* the indicator stage at any time.
InStage == {w \in Workers : workers[w].pc \in {"fetch", "process"}}
C1_SingleFlight == Cardinality(InStage) <= 1

\* C2: a start_refresh() that finds the persisted status fetching or
\* processing, and a start_refresh() that directly follows an accepted
\* one, returns success = False, leaves the state file as it was and
\* starts no worker.
C2_RejectedStartHasNoEffect ==
    [][(start_refresh /\ (PersistedStatus \in {"fetching", "processing"} \/ AcceptedStart))
         => (/\ ~ret'.success
             /\ file' = file
             /\ workers' = workers
             /\ current_thread' = current_thread)]_vars
C2_Witness ==
    /\ ret.op = "start_refresh" /\ ~ret.success
    /\ PersistedStatus = "processing"
    /\ \E w \in Workers : workers[w].pc = "process"

\* C3: reset_to_idle() called while the persisted status is fetching or
\* processing returns a failure result and leaves the state file unchanged.
C3_ResetWhileRunningFails ==
    [][(reset_to_idle /\ PersistedStatus \in {"fetching", "processing"})
         => (ret'.returned /\ ~ret'.success /\ file' = file)]_vars

\* C4: reset_to_idle() called while no run is active returns success and
\* persists the idle state, keeping last_successful_refresh.
C4_ResetRestoresIdle ==
    [][(reset_to_idle /\ PersistedStatus \in {"idle", "completed", "failed"})
         => (/\ ret'.returned /\ ret'.success
             /\ file' = Saved(IdleState(Get(LoadState(file), "last_successful_refresh"))))]_vars

\* C5 as claimed: while the persisted status is failed (a run has failed
\* and no reset has succeeded since), no start_refresh() is accepted.
C5_FailedBlocksStart ==
    [][StatusOnDisk("failed") => ~(ret'.op = "start_refresh" /\ ret'.success)]_vars

\* C5 as amended: start_refresh() called while the persisted status is
\* failed is accepted without any reset (it persists fetching and launches
\* a worker); start_refresh() is rejected only while the persisted status
\* is fetching or processing.
C5_StartAcceptedAfterFailed ==
    [][start_refresh =>
         /\ StatusOnDisk("failed") =>
               (ret'.success /\ StatusOnDisk("fetching")' /\ current_thread' # current_thread)
         /\ ~ret'.success => PersistedStatus \in {"fetching", "processing"}]_vars
C5_Witness ==
    /\ AcceptedStart /\ ret.loaded = "failed"
    /\ StatusOnDisk("fetching")

\* C6: a worker reaches the indicator stage (persists processing, runs the
\* indicator subprocess) only after its sync stage exited with code 0; a
\* worker whose sync stage exited non-zero, timed out or could not be
\* launched goes to _mark_failed with a non-empty error text without ever
\* persisting processing, and _mark_failed persists status failed with
\* that text.
C6_SyncBeforeIndicator ==
    /\ [](\A w \in Workers :
            LET wk == workers[w] IN
            /\ (wk.wrote_processing \/ wk.process.kind # "not_run"
                 \/ wk.pc \in {"update_processing", "process", "completed",
                               "save_open", "save_write"})
                  => StageOk(wk.fetch)
            /\ (wk.fetch.kind # "not_run" /\ ~StageOk(wk.fetch))
                  => /\ wk.pc = "mark_failed"
                     /\ ~wk.wrote_processing
                     /\ wk.process.kind = "not_run"
                     /\ wk.error_msg # None /\ Len(wk.error_msg) > 0)
    /\ [][\A w \in Workers : MarkFailed(w) =>
             /\ StatusOnDisk("failed")'
             /\ file'.json.error = workers[w].error_msg
             /\ file'.json.error # None]_vars
C6_Witness ==
    /\ StatusOnDisk("failed")
    /\ file.json.error = "Fetch failed: " \o Traceback
    /\ \A w \in Workers : workers[w].pc \in {"unborn", "done"}

C8_RunEnds ==
    [](AcceptedStart => <>(StatusOnDisk("completed") \/ StatusOnDisk("failed")))

\* C9 as claimed: a run whose sync stage failed to fetch every symbol goes
\* to failed and never to the indicator stage.
C9_AllFetchFailedFailsRun ==
    hist.all_fetch_failed =>
        /\ workers[current_thread].pc \in {"mark_failed", "done"}
        /\ ~workers[current_thread].wrote_processing

\* C9 as amended: when the fetch fails for every symbol the sync stage
\* still exits with code 0; the run is not failed for it and no error text
\* is produced: the worker goes on to persist processing and to run the
\* indicator stage.
C9_AllFetchFailedProceeds ==
    hist.all_fetch_failed =>
        LET wk == workers[current_thread] IN
        \/ wk.pc = "done"
        \/ /\ StageOk(wk.fetch)
           /\ wk.pc = "update_processing" \/ wk.wrote_processing
           /\ wk.pc = "mark_failed" => StageFailed(wk.process)
           /\ wk.process.kind = "not_run" => wk.error_msg = None
C9_Witness ==
    /\ hist.all_fetch_failed
    /\ workers[current_thread].pc = "process"
    /\ StatusOnDisk("processing")
    /\ file.json.error = None

\* C10: per-item errors never reach JobState.error and never change the
\* outcome of the run: a worker calls _mark_failed only after a stage-level
\* failure of one of its stages, whatever per-item errors the stages met;
\* the error field of the state file is written by _mark_failed with that
\* failure's text, cleared by start_refresh and by the completion write,
\* and otherwise only carried over from what was loaded.
C10_OnlyStageFailuresFail ==
    /\ [](\A w \in Workers :
            LET wk == workers[w] IN
            /\ wk.pc = "mark_failed" <=> (StageFailed(wk.fetch) \/ StageFailed(wk.process))
            /\ wk.pc = "mark_failed" <=> wk.error_msg # None
            /\ wk.pc \in {"save_open", "save_write"} => wk.state.error = None)
    /\ [][\A w \in Workers :
             /\ MarkFailed(w) => file'.json.error = workers[w].error_msg
             /\ (UpdateFetching(w) \/ UpdateProcessing(w))
                   => file'.json.error = Get(LoadState(file), "error")]_vars
C10_Witness ==
    /\ hist.item_errors
    /\ workers[current_thread].pc = "done"
    /\ StatusOnDisk("completed")
    /\ file.json.error = None
    /\ file.json.started_at = 1

\* C11: get_status() is a pure read: a call changes neither the state file
\* nor the worker handle nor any worker thread.
C11_GetStatusPureRead ==
    [][get_status => (/\ file' = file
                      /\ current_thread' = current_thread
                      /\ workers' = workers
                      /\ lock' = lock)]_vars
C11_Witness ==
    /\ ret.op = "get_status"
    /\ ret.value.status = "processing"
    /\ \E w \in Workers : workers[w].pc = "process"

\* C12: every value get_status() returns is the document that the state
\* file holds, a state persisted by one of the manager's transitions.
C12_StatusVerbatim ==
    ret.op = "get_status" => (file.readable /\ ret.value = file.json)

\* C13 as claimed: after every construction of the manager the persisted
\* status is idle.
C13_IdleAtProcessStart ==
    [][Restart => StatusOnDisk("idle")']_vars

\* C13 as amended: construction writes the idle state only when no state
\* file exists (the first start); when a file exists, construction leaves
\* it exactly as the previous process left it.
C13_StateSurvivesRestart ==
    /\ (current_thread = 0 /\ now = 1 /\ ret = NoCall) => file = Saved(IdleState(NoTime))
    /\ [][Restart => file' = file]_vars
C13_Witness ==
    /\ ret.op = "restart"
    /\ StatusOnDisk("processing")
    /\ \E w \in Workers : workers[w].pc = "done"

\* C14: historical_prices never holds two rows with the same
\* (symbol, date), whatever initial, incremental and forced-full syncs ran.
C14_UniqueSymbolDate ==
    \A r \in BagToSet(prices) :
        /\ prices[r] = 1
        /\ \A q \in BagToSet(prices) : Key(q) = Key(r) => q = r
C14_Witness ==
    /\ last.op = "sync" /\ batch.force_full
    /\ last.cursor # NoDate
    /\ last.inserted = 1
    /\ last.newest <= last.cursor
    /\ Cardinality(SymbolRows(last.symbol, prices)) >= 2

\* C15: for a symbol with a stored cursor, an incremental sync makes no
\* request and returns 0 exactly when cursor + 1 day is after today, and
\* otherwise requests exactly [cursor + 1 day, today].
C15_WindowFromCursor ==
    (/\ last.op = "sync" /\ ~batch.force_full
     /\ last.cursor # NoDate
     /\ batch.outcome[last.symbol] # "db_error")
    => IF last.cursor + 1 > today
       THEN last.from = NoDate /\ last.inserted = 0
       ELSE last.from = last.cursor + 1 /\ last.to = today

C17_FetchFailuresCounted ==
    (batch.todo = {} /\ DOMAIN batch.outcome = Symbols) =>
        LET summary == incremental_fetch_all(Symbols, batch.outcome)
            failed == {symbol \in Symbols : batch.outcome[symbol] \in FetchFailures}
        IN /\ summary.fail_count >= Cardinality(failed)
           /\ summary.success_count <= Cardinality(Symbols \ failed)

\* C18: insert_historical_data is an upsert by (symbol, date): after the
\* merge every dated key of the frame holds exactly one row, with the
\* values of the frame's last row for that key; the rows with other keys
\* are the ones stored before; merging the same frame again changes
\* nothing.
C18_MergeIsUpsert ==
    last.op \in {"merge", "merge_again"} =>
        LET df == last.df
            dates == {df[i].date : i \in 1..Len(df)} \ {NoDate}
            LastRow(date) == df[Max({i \in 1..Len(df) : df[i].date = date})]
            InFrame(r) == r.symbol = last.symbol /\ r.date \in dates
        IN /\ \A date \in dates :
                LET row == PriceRow(last.symbol, date, LastRow(date).close)
                IN /\ {r \in BagToSet(prices) : Key(r) = Key(row)} = {row}
                   /\ prices[row] = 1
           /\ {r \in BagToSet(prices) : ~InFrame(r)}
                = {r \in BagToSet(last.before) : ~InFrame(r)}
           /\ \A r \in BagToSet(prices) : ~InFrame(r) => prices[r] = last.before[r]
           /\ last.inserted = Cardinality({i \in 1..Len(df) : df[i].date # NoDate})
           /\ last.op = "merge_again" => prices = last.before
C18_Witness ==
    /\ last.op = "merge_again"
    /\ Len(last.df) = 2
    /\ last.df[1].date = last.df[2].date /\ last.df[1].date # NoDate
    /\ last.df[1].close # last.df[2].close
    /\ BagCardinality(prices) > 1

\* C19: a symbol with fewer than MinRows valid rows gets no snapshot
\* (calculate_and_store_indicators executes no statement on
\* stock_indicators for it), and the stage does not fail for it: whatever the symbols'
\* outcomes, process_indicators.py exits 0 and the worker of the job
\* manager finds no error, so the run goes on to completed.
C19_InsufficientSkipped ==
    /\ [][\A symbol \in Symbols :
            (CalcSymbol(symbol) /\ Cardinality(ValidRows(symbol, prices)) < MinRows)
            => (/\ indicators' = indicators
                /\ symbol \notin DOMAIN calc'.tx
                /\ calc'.outcome[symbol] # "stored")]_vars
    /\ []((calc.todo = {} /\ DOMAIN calc.outcome = Symbols) =>
            LET result == process_indicators_main(
                              [crash |-> FALSE, has_rows |-> TRUE, outcome |-> calc.outcome])
            IN /\ result.returncode = 0
               /\ result.summary.fail_count
                    = Cardinality({symbol \in Symbols : calc.outcome[symbol] # "stored"})
               /\ StageError("exited", result, "Processing failed: ", "processing") = None)
C19_Witness ==
    /\ calc.todo = {}
    /\ calc.outcome = [symbol \in Symbols |->
                         IF symbol = "BBB" THEN "insufficient" ELSE "stored"]
    /\ RowCount("BBB", prices) >= MinRows
    /\ SnapshotRows("BBB", indicators) = EmptyBag
    /\ \A symbol \in Symbols \ {"BBB"} : SnapshotRows(symbol, indicators) # EmptyBag

\* C20: in every state, the data_age_days of every stored snapshot is the
\* number of calendar days from the snapshot's date to today.
C20_DataAgeIsCurrent ==
    \A row \in BagToSet(indicators) : row.data_age_days = today - row.date

\* ---------------------------------------------------------------- C21-C23
\* C21: whenever calculate_and_store_indicators has stored a snapshot for
\* a symbol, the snapshot's date is the maximum date among all the rows of
\* historical_prices of that symbol.
C21_SnapshotDateIsNewest ==
    (last.op = "calc" /\ last.outcome = "stored") =>
        \A row \in BagToSet(SnapshotRows(last.symbol, indicators)) :
            row.date = get_latest_date(last.symbol, prices)

\* the ways one symbol's future can end in an exception
CalcErrors == {"calc_error", "conn_error"}

\* C22: an exception met for one symbol (in the calculation, at the commit
\* or when connecting) changes no row of stock_indicators, so the symbol's
\* earlier snapshot stays as it was, and takes only this symbol off the
\* batch; when the batch is over every symbol of stocks has been handled,
\* and each one that met no exception and has enough valid rows has its
\* snapshot in the table.
C22_ErrorSkipsOneSymbol ==
    /\ [][\A symbol \in Symbols :
            (/\ CalcSymbol(symbol) \/ CommitSymbol(symbol)
             /\ last'.op = "calc" /\ last'.outcome \in CalcErrors)
            => (/\ indicators' = indicators
                /\ calc'.todo = calc.todo \ {symbol}
                /\ \A s \in DOMAIN calc.outcome \ {symbol} :
                     calc'.outcome[s] = calc.outcome[s])]_vars
    /\ []((calc.todo = {} /\ calc.outcome # <<>>) =>
            /\ DOMAIN calc.outcome = stocks
            /\ \A symbol \in stocks :
                 /\ calc.outcome[symbol] \notin CalcErrors
                      => calc.outcome[symbol] = IndicatorOutcome(symbol, prices)
                 /\ calc.outcome[symbol] = "stored"
                      => \E row \in BagToSet(SnapshotRows(symbol, indicators)) :
                           row.date = Snapshot(symbol, prices, row.last_calculated).date)
C22_Witness ==
    /\ calc.todo = {}
    /\ calc.outcome = [symbol \in Symbols |->
                         IF symbol = "BBB" THEN "calc_error" ELSE "stored"]
    /\ last.op = "calc" /\ last.symbol = "AAA"
    /\ SnapshotRows("BBB", indicators) # EmptyBag
    /\ \E a \in BagToSet(SnapshotRows("AAA", indicators)),
          b \in BagToSet(SnapshotRows("BBB", indicators)) :
            b.last_calculated < a.last_calculated

\* C23: a reader of stock_indicators finds at most one row per symbol, and
\* the row is whole: all its fields are those of one calculation (the one
\* made at its last_calculated); and every step leaves the committed rows
\* of a symbol as they were or replaces them by exactly the row of that
\* symbol's transaction.
C23_SnapshotWhole ==
    /\ [](last.op = "read" =>
            /\ BagCardinality(last.rows) <= 1
            /\ \A row \in BagToSet(last.rows) :
                 row = Snapshot(last.symbol, prices, row.last_calculated))
    /\ [][\A symbol \in Symbols :
            \/ SnapshotRows(symbol, indicators') = SnapshotRows(symbol, indicators)
            \/ /\ symbol \in DOMAIN calc.tx
               /\ SnapshotRows(symbol, indicators') = SetToBag({calc.tx[symbol]})]_vars
C23_Witness ==
    /\ last.op = "read"
    /\ last.symbol \in DOMAIN calc.tx
    /\ \E row \in BagToSet(last.rows) :
         row.last_calculated < calc.tx[last.symbol].last_calculated

\* ------------------------------------------------------------------- C24
\* C24: a symbol without rows for which the provider returns ScenarioRows
\* rows on as many distinct dates ending today has exactly that many rows
\* after the sync, the newest dated today; the snapshot a later
\* calculation stores for it carries the date of that newest row, the
\* indicator with the longest window is not null in it, and its
\* data_age_days is 0 when the calculation is made on the day of that row.
C24_FirstSyncThenSnapshot ==
    /\ [][\A symbol \in Symbols :
            InitialSync(symbol)
            => (/\ RowCount(symbol, prices') = ScenarioRows
                /\ Cardinality(SymbolRows(symbol, prices')) = ScenarioRows
                /\ last'.inserted = ScenarioRows
                /\ get_latest_date(symbol, prices') = today)]_vars
    /\ []((last.op = "calc" /\ last.outcome = "stored") =>
            \A row \in BagToSet(SnapshotRows(last.symbol, indicators)) :
               /\ row.date = get_latest_date(last.symbol, prices)
               /\ row.sma_200 # Float("null")
               /\ strftime(row.last_calculated) = row.date => row.data_age_days = 0)
C24_Witness ==
    /\ last.op = "calc" /\ last.outcome = "stored" /\ last.symbol = "AAA"
    /\ RowCount("AAA", prices) = ScenarioRows
    /\ \E row \in BagToSet(SnapshotRows("AAA", indicators)) :
         /\ row.date = today
         /\ row.data_age_days = 0
         /\ row.sma_200 = Float("finite")

\* ------------------------------------------------------------------- C25
\* C25: every derived value whose formula divides by zero at the last row
\* is stored as null, whether its numerator is zero or not.
C25_ZeroDivisionIsNull ==
    last.op = "derive" =>
        \A field \in DOMAIN last.row :
            Ratios(calc.df)[field].den = 0 => last.row[field] = Float("null")

\* ---------------------------------------------------------------- C26-C29
\* The operators of the service keep calling the public operations and the
\* worker threads are scheduled fairly; the process may be restarted.
FairRestartSpec ==
    /\ RestartSpec
    /\ \A w \in Workers : WF_vars(WorkerStep(w))
    /\ WF_vars(get_status) /\ WF_vars(start_refresh) /\ WF_vars(reset_to_idle)

\* C26: every call of reset_to_idle() returns a result and leaves the
\* manager's lock free.
C26_ResetReturns ==
    [][reset_to_idle => (ret'.returned /\ lock' = Free)]_vars

\* last_successful_refresh of the document the state file holds
LastRefresh == Get(LoadState(file), "last_successful_refresh")

\* C27: once a run has completed successfully, last_successful_refresh of
\* the persisted state is never null again and never moves to an earlier
\* time: from one parsable content of the file to the next it never
\* decreases.
C27_LastRefreshKept ==
    [][(file.readable /\ file'.readable) => LastRefresh' >= LastRefresh]_vars

\* the state a killed process leaves behind: the persisted status says a
\* run is active and no worker thread is alive
Orphaned ==
    /\ PersistedStatus \in RunningStatuses
    /\ \A w \in Workers : workers[w].pc \in {"unborn", "done"}

\* C28 (no permanent lockout): whenever the persisted status is fetching
\* or processing with no worker alive, public operations lead to an
\* accepted start_refresh().
C28_NoPermanentLockout ==
    [](Orphaned => <>AcceptedStart)

\* C29: every document the state file holds has a status among idle,
\* fetching, processing, completed, failed, and its error is non-null
\* exactly when the status is failed.
C29_ErrorIffFailed ==
    file.readable =>
        /\ Get(file.json, "status") \in {"idle", "fetching", "processing", "completed", "failed"}
        /\ (Get(file.json, "error") # None) <=> (Get(file.json, "status") = "failed")


\* ------------------------------------------------------------------- C30
\* C30: the count a sync of one symbol returns is the number of rows by
\* which the stored series of that symbol grew.
C30_InsertedIsGrowth ==
    [][\A symbol \in Symbols :
         SyncSymbol(symbol)
           => last'.inserted = RowCount(symbol, prices') - RowCount(symbol, prices)]_vars

====
